---- MODULE Spec2Model ----
(***************************************************************************)
(* Follow graph and like/notification engine of social_media_api.          *)
(*                                                                         *)
(* The state is the rows of the tables the views read and write; every     *)
(* action is one HTTP request handled to completion by one view.           *)
(* posts/views.py leaves the call Notification.objects.create( of          *)
(* like_post without its closing parenthesis; the handler is modelled with *)
(* the call closed before the final return, which is the only reading      *)
(* under which the module has any behaviour.  accounts/views.py names the  *)
(* user model CustomUser, accounts/models.py names it User: one table.     *)
(***************************************************************************)
EXTENDS Integers, Sequences, FiniteSets, TLC

\* ------------------------------------------------------------------ bounds
NumUsers == 2
NumPosts == 1
MaxNotifications == 2
NumConcurrent == 2
MaxFeedPosts == 2
MaxTime == 2

\* --------------------------------------------------------------- constants
HTTP_200_OK == 200
HTTP_201_CREATED == 201
HTTP_400_BAD_REQUEST == 400
HTTP_401_UNAUTHORIZED == 401
HTTP_403_FORBIDDEN == 403
HTTP_404_NOT_FOUND == 404
HTTP_500_INTERNAL_SERVER_ERROR == 500

\* request.user of a request that carries no valid credentials
Anonymous == 0

\* primary keys of the stored users and posts, and one pk of each kind that
\* no row has
Users == 1..NumUsers
Posts == 1..NumPosts
MissingUserPk == NumUsers + 1
MissingPostPk == NumPosts + 1
Callers == Users \cup {Anonymous}
UserPks == Users \cup {MissingUserPk}
PostPks == Posts \cup {MissingPostPk}

\* the requests that are handled at the same time
Procs == 1..NumConcurrent

\* author of the stored post p: post 1 by user 1, post 2 by user 2, ...
PostAuthor(p) == ((p - 1) % NumUsers) + 1

\* the Post rows of the like and follow specifications: post p was created
\* at time p
StoredPosts == [p \in Posts |-> [author |-> PostAuthor(p), created_at |-> p]]

VARIABLES
    followers_rows,  \* through table of User.followers: number of rows
                     \* (from_user, to_user); to_user follows from_user
    likes,           \* Like table: number of rows (user, post)
    notifications,   \* Notification table, in insertion order
    posts,           \* Post table: post pk -> row
    resp,            \* the last request and the status of its response
    prev,            \* op and status of the request before it, when that one
                     \* had the same caller and pk ("none" otherwise)
    pre,             \* the tables as they were before the last request
    calls,           \* the requests in flight: their request, the statement
                     \* they are at and, once answered, their status
    writes,          \* the writes in-flight follow and unfollow requests
                     \* applied to the through table, in order
    feed,            \* the last response of the feed view
    post_seq,        \* the pk the Post table gave out last
    books,           \* Book table of the library catalog, pk = position
    comments,        \* Comment table of the blog: comment pk -> row
    tags             \* Tag table of the blog, pk = position

vars ==
    <<followers_rows, likes, notifications, posts, resp, prev, pre, calls,
      writes, feed, post_seq, books, comments, tags>>

\* what the follow, like and feed views never read or write
other_tables == <<post_seq, books, comments, tags>>

NoPrev == [op |-> "none", status |-> 0]

\* a request without a body the model looks at
NoData == [content |-> 0]

\* no request was made yet
NoResp ==
    [op |-> "none", user |-> Anonymous, pk |-> 0, status |-> 0, error |-> "",
     data |-> NoData]

\* the stored rows, and the last feed response
Snapshot ==
    [followers_rows |-> followers_rows, likes |-> likes,
     notifications |-> notifications, posts |-> posts, feed |-> feed,
     books |-> books, comments |-> comments, tags |-> tags]

\* no request in flight
Idle ==
    [op |-> "none", user |-> Anonymous, pk |-> 0, pc |-> "idle",
     status |-> 0, conflict |-> FALSE]

NoFeed == [user |-> Anonymous, ids |-> <<>>]

\* ----------------------------------------------------------- ORM helpers
RECURSIVE row_count(_, _)
\* COUNT(*) over the rows of a table whose key is in keys
row_count(rows, keys) ==
    IF keys = {} THEN 0
    ELSE LET k == CHOOSE x \in keys : TRUE
         IN rows[k] + row_count(rows, keys \ {k})

\* user.followers.all(): to_user of the rows whose from_user is u
followers(u) == {v \in Users : followers_rows[<<u, v>>] > 0}

following_wrong_column(u) == {v \in Users : followers_rows[<<u, v>>] > 0}
\* user.following.all(), the related_name accessor: from_user of the rows
\* whose to_user is u
following(u) == {v \in Users : followers_rows[<<v, u>>] > 0}

\* User.followers_count / UserSerializer.followers_count
followers_count(u) == row_count(followers_rows, {<<u, v>> : v \in Users})

\* User.following_count / UserSerializer.following_count
following_count(u) == row_count(followers_rows, {<<v, u>> : v \in Users})

related_add_nothing(rows, user, target_user) == rows
related_add_duplicate(rows, user, target_user) ==
    [rows EXCEPT ![<<target_user, user>>] = @ + 1]
related_add_symmetrical(rows, user, target_user) ==
    [rows EXCEPT ![<<target_user, user>>] = 1, ![<<user, target_user>>] = 1]
related_add_toggle(rows, user, target_user) ==
    [rows EXCEPT ![<<target_user, user>>] = 1 - @]
\* request.user.following.add(target_user): inserts the row
\* (from_user = target_user, to_user = user) unless one is already there
related_add(rows, user, target_user) ==
    IF rows[<<target_user, user>>] > 0 THEN rows
    ELSE [rows EXCEPT ![<<target_user, user>>] = 1]

related_remove_nothing(rows, user, target_user) == rows
related_remove_forward(rows, user, target_user) ==
    [rows EXCEPT ![<<user, target_user>>] = 0]
\* request.user.following.remove(target_user): deletes every row
\* (from_user = target_user, to_user = user); none is not an error
related_remove(rows, user, target_user) ==
    [rows EXCEPT ![<<target_user, user>>] = 0]

follow_is_self_never(target_user, user) == FALSE
\* target_user == request.user in FollowUserView.post
follow_is_self(target_user, user) == target_user = user

unfollow_is_self_never(target_user, user) == FALSE
\* target_user == request.user in UnfollowUserView.post
unfollow_is_self(target_user, user) == target_user = user

get_or_create_always(rows, user, post) ==
    [rows |-> [rows EXCEPT ![<<user, post>>] = @ + 1], created |-> TRUE,
     error |-> FALSE]
\* Like.objects.get_or_create(user=request.user, post=post): one matching
\* row is returned, none is created, several raise MultipleObjectsReturned
get_or_create(rows, user, post) ==
    IF rows[<<user, post>>] = 0
    THEN [rows |-> [rows EXCEPT ![<<user, post>>] = 1], created |-> TRUE,
          error |-> FALSE]
    ELSE [rows |-> rows, created |-> FALSE,
          error |-> rows[<<user, post>>] > 1]

like_delete_nothing(rows, user, post) == rows
like_delete_any_user(rows, user, post) ==
    [k \in DOMAIN rows |-> IF k[2] = post THEN 0 ELSE rows[k]]
\* like.delete() on Like.objects.filter(user=..., post=...).first()
like_delete(rows, user, post) == [rows EXCEPT ![<<user, post>>] = @ - 1]

Notification_to_actor(actor, post) ==
    [actor |-> actor, recipient |-> actor,
     verb |-> "liked your post", target_object_id |-> post]
\* Notification.objects.create(actor=..., recipient=..., verb=..., ...)
Notification(actor, post) ==
    [actor |-> actor, recipient |-> posts[post].author,
     verb |-> "liked your post", target_object_id |-> post]

\* ------------------------------------------------------------ bookkeeping
\* records the request with its data, the status and the 'error' entry of
\* its response, and the tables it started from
RecordWith(op, user, pk, status, error, data) ==
    /\ resp' = [op |-> op, user |-> user, pk |-> pk, status |-> status,
                error |-> error, data |-> data]
    /\ prev' = IF resp.user = user /\ resp.pk = pk
               THEN [op |-> resp.op, status |-> resp.status]
               ELSE NoPrev
    /\ pre' = Snapshot

\* records a request without data and a response without an 'error' entry
Record(op, user, pk, status) == RecordWith(op, user, pk, status, "", NoData)

\* the response of a request that is handled alone and is not a feed query
Respond(op, user, pk, status) ==
    /\ Record(op, user, pk, status)
    /\ UNCHANGED <<calls, writes, feed>>
    /\ UNCHANGED other_tables

\* the same for a response {'error': error}
RespondError(op, user, pk, status, error) ==
    /\ RecordWith(op, user, pk, status, error, NoData)
    /\ UNCHANGED <<calls, writes, feed>>
    /\ UNCHANGED other_tables

NotAuthenticated_allowed(op, user, pk) ==
    /\ Respond(op, user, pk, HTTP_200_OK)
    /\ UNCHANGED <<followers_rows, likes, notifications, posts>>
\* permission_classes = [IsAuthenticated]: the status depends on the
\* configured authenticators, which the views do not fix
NotAuthenticated(op, user, pk) ==
    /\ \E st \in {HTTP_401_UNAUTHORIZED, HTTP_403_FORBIDDEN} :
           Respond(op, user, pk, st)
    /\ UNCHANGED <<followers_rows, likes, notifications, posts>>

\* ---------------------------------------------------------------- actions
FollowUserView_post(user, pk) ==
    IF user = Anonymous THEN NotAuthenticated("follow", user, pk)
    ELSE IF pk \notin Users THEN
        /\ Respond("follow", user, pk, HTTP_404_NOT_FOUND)
        /\ UNCHANGED <<followers_rows, likes, notifications, posts>>
    ELSE IF follow_is_self(pk, user) THEN
        /\ RespondError("follow", user, pk, HTTP_400_BAD_REQUEST,
                        "You cannot follow yourself.")
        /\ UNCHANGED <<followers_rows, likes, notifications, posts>>
    ELSE
        /\ followers_rows' = related_add(followers_rows, user, pk)
        /\ Respond("follow", user, pk, HTTP_200_OK)
        /\ UNCHANGED <<likes, notifications, posts>>

UnfollowUserView_post(user, pk) ==
    IF user = Anonymous THEN NotAuthenticated("unfollow", user, pk)
    ELSE IF pk \notin Users THEN
        /\ Respond("unfollow", user, pk, HTTP_404_NOT_FOUND)
        /\ UNCHANGED <<followers_rows, likes, notifications, posts>>
    ELSE IF unfollow_is_self(pk, user) THEN
        /\ RespondError("unfollow", user, pk, HTTP_400_BAD_REQUEST,
                        "You cannot unfollow yourself.")
        /\ UNCHANGED <<followers_rows, likes, notifications, posts>>
    ELSE
        /\ followers_rows' = related_remove(followers_rows, user, pk)
        /\ Respond("unfollow", user, pk, HTTP_200_OK)
        /\ UNCHANGED <<likes, notifications, posts>>

like_post_notifies_once(user, pk) ==
    IF user = Anonymous THEN NotAuthenticated("like", user, pk)
    ELSE IF pk \notin Posts THEN
        /\ Respond("like", user, pk, HTTP_404_NOT_FOUND)
        /\ UNCHANGED <<followers_rows, likes, notifications, posts>>
    ELSE LET r == get_or_create(likes, user, pk) IN
        IF r.error THEN
            /\ Respond("like", user, pk, HTTP_500_INTERNAL_SERVER_ERROR)
            /\ UNCHANGED <<followers_rows, likes, notifications, posts>>
        ELSE IF ~r.created THEN
            /\ likes' = r.rows
            /\ Respond("like", user, pk, HTTP_400_BAD_REQUEST)
            /\ UNCHANGED <<followers_rows, notifications, posts>>
        ELSE
            /\ likes' = r.rows
            /\ IF /\ posts[pk].author # user
                  /\ \A k \in 1..Len(notifications) :
                         ~(/\ notifications[k].actor = user
                           /\ notifications[k].target_object_id = pk)
               THEN /\ Len(notifications) < MaxNotifications
                    /\ notifications' =
                           Append(notifications, Notification(user, pk))
               ELSE UNCHANGED notifications
            /\ Respond("like", user, pk, HTTP_201_CREATED)
            /\ UNCHANGED <<followers_rows, posts>>
like_post(user, pk) ==
    IF user = Anonymous THEN NotAuthenticated("like", user, pk)
    ELSE IF pk \notin Posts THEN
        /\ Respond("like", user, pk, HTTP_404_NOT_FOUND)
        /\ UNCHANGED <<followers_rows, likes, notifications, posts>>
    ELSE LET r == get_or_create(likes, user, pk) IN
        IF r.error THEN
            /\ Respond("like", user, pk, HTTP_500_INTERNAL_SERVER_ERROR)
            /\ UNCHANGED <<followers_rows, likes, notifications, posts>>
        ELSE IF ~r.created THEN
            /\ likes' = r.rows
            /\ Respond("like", user, pk, HTTP_400_BAD_REQUEST)
            /\ UNCHANGED <<followers_rows, notifications, posts>>
        ELSE
            /\ likes' = r.rows
            /\ IF posts[pk].author # user
               THEN /\ Len(notifications) < MaxNotifications
                    /\ notifications' =
                           Append(notifications, Notification(user, pk))
               ELSE UNCHANGED notifications
            /\ Respond("like", user, pk, HTTP_201_CREATED)
            /\ UNCHANGED <<followers_rows, posts>>

like_post_create_raises_rolled_back(user, pk) ==
    /\ user \in Users /\ pk \in Posts
    /\ get_or_create(likes, user, pk).created
    /\ posts[pk].author # user
    /\ Respond("like", user, pk, HTTP_500_INTERNAL_SERVER_ERROR)
    /\ UNCHANGED <<followers_rows, likes, notifications, posts>>
\* like_post when Notification.objects.create raises: the view has no
\* try/except and no transaction around the two writes, so the Like that
\* get_or_create committed stays and the exception becomes a 500 response
like_post_create_raises(user, pk) ==
    /\ user \in Users /\ pk \in Posts
    /\ get_or_create(likes, user, pk).created
    /\ posts[pk].author # user
    /\ likes' = get_or_create(likes, user, pk).rows
    /\ Respond("like", user, pk, HTTP_500_INTERNAL_SERVER_ERROR)
    /\ UNCHANGED <<followers_rows, notifications, posts>>

unlike_post_missing_not_liked(user, pk) ==
    IF user = Anonymous THEN NotAuthenticated("unlike", user, pk)
    ELSE IF pk \in Posts /\ likes[<<user, pk>>] > 0 THEN
        /\ likes' = like_delete(likes, user, pk)
        /\ Respond("unlike", user, pk, HTTP_200_OK)
        /\ UNCHANGED <<followers_rows, notifications, posts>>
    ELSE
        /\ Respond("unlike", user, pk, HTTP_400_BAD_REQUEST)
        /\ UNCHANGED <<followers_rows, likes, notifications, posts>>
unlike_post_retracts(user, pk) ==
    IF user = Anonymous THEN NotAuthenticated("unlike", user, pk)
    ELSE IF pk \notin Posts THEN
        /\ Respond("unlike", user, pk, HTTP_404_NOT_FOUND)
        /\ UNCHANGED <<followers_rows, likes, notifications, posts>>
    ELSE IF likes[<<user, pk>>] > 0 THEN
        /\ likes' = like_delete(likes, user, pk)
        /\ LET Keep(n) == ~(n.actor = user /\ n.target_object_id = pk)
           IN notifications' = SelectSeq(notifications, Keep)
        /\ Respond("unlike", user, pk, HTTP_200_OK)
        /\ UNCHANGED <<followers_rows, posts>>
    ELSE
        /\ Respond("unlike", user, pk, HTTP_400_BAD_REQUEST)
        /\ UNCHANGED <<followers_rows, likes, notifications, posts>>
unlike_post(user, pk) ==
    IF user = Anonymous THEN NotAuthenticated("unlike", user, pk)
    ELSE IF pk \notin Posts THEN
        /\ Respond("unlike", user, pk, HTTP_404_NOT_FOUND)
        /\ UNCHANGED <<followers_rows, likes, notifications, posts>>
    ELSE IF likes[<<user, pk>>] > 0 THEN
        /\ likes' = like_delete(likes, user, pk)
        /\ Respond("unlike", user, pk, HTTP_200_OK)
        /\ UNCHANGED <<followers_rows, notifications, posts>>
    ELSE
        /\ Respond("unlike", user, pk, HTTP_400_BAD_REQUEST)
        /\ UNCHANGED <<followers_rows, likes, notifications, posts>>

\* ---------------------------------------------------------- specifications
\* the Post table gave out the pks of the stored posts; no book, comment or
\* tag is stored
NoOtherTables ==
    /\ post_seq = NumPosts
    /\ books = <<>>
    /\ comments = <<>>
    /\ tags = <<>>

Init ==
    /\ followers_rows = [k \in Users \X Users |-> 0]
    /\ likes = [k \in Users \X Posts |-> 0]
    /\ notifications = <<>>
    /\ posts = StoredPosts
    /\ resp = NoResp
    /\ prev = NoPrev
    /\ calls = [i \in Procs |-> Idle]
    /\ writes = <<>>
    /\ feed = NoFeed
    /\ NoOtherTables
    /\ pre = Snapshot

Follow == \E user \in Callers, pk \in UserPks : FollowUserView_post(user, pk)

Unfollow ==
    \E user \in Callers, pk \in UserPks : UnfollowUserView_post(user, pk)

Like == \E user \in Callers, pk \in PostPks : like_post(user, pk)

Unlike == \E user \in Callers, pk \in PostPks : unlike_post(user, pk)

LikeCreateRaises ==
    \E user \in Callers, pk \in PostPks : like_post_create_raises(user, pk)

NextGraph == Follow \/ Unfollow

NextEngage == Like \/ Unlike

\* follow and unfollow requests only
SpecGraph == Init /\ [][NextGraph]_vars

\* like and unlike requests only
SpecEngage == Init /\ [][NextEngage]_vars

NextAll == Follow \/ Unfollow \/ Like \/ Unlike

\* follow, unfollow, like and unlike requests
SpecAll == Init /\ [][NextAll]_vars

NextEngageFault == Like \/ Unlike \/ LikeCreateRaises

\* like and unlike requests, the creation of the notification may fail
SpecEngageFault == Init /\ [][NextEngageFault]_vars

\* ------------------------------------------------- requests in flight
\* The statements of a view that read or write a table are one step each;
\* the steps of the requests in flight interleave freely.  The tables the
\* requests started from stay in pre.

\* the Like table has a uniqueness constraint on (user, post)
LikeUnique == TRUE

insert_like_conflict_created(rows, user, post) ==
    IF LikeUnique /\ rows[<<user, post>>] > 0
    THEN [rows |-> rows, created |-> TRUE, conflict |-> TRUE]
    ELSE [rows |-> [rows EXCEPT ![<<user, post>>] = @ + 1],
          created |-> TRUE, conflict |-> FALSE]
\* the INSERT of get_or_create: under the uniqueness constraint a second
\* row for the pair raises IntegrityError, which get_or_create answers by
\* fetching the stored row and returning created = False
insert_like(rows, user, post) ==
    IF LikeUnique /\ rows[<<user, post>>] > 0
    THEN [rows |-> rows, created |-> FALSE, conflict |-> TRUE]
    ELSE [rows |-> [rows EXCEPT ![<<user, post>>] = @ + 1],
          created |-> TRUE, conflict |-> FALSE]

\* request i moves to statement pc
Goto(i, pc) == calls' = [calls EXCEPT ![i].pc = pc]

\* request i is answered
Done(i, status) ==
    calls' = [calls EXCEPT ![i].pc = "done", ![i].status = status]

\* like_post up to get_object_or_404: permission and post lookup
like_post_begin(i) ==
    /\ calls[i].op = "like" /\ calls[i].pc = "begin"
    /\ IF calls[i].user = Anonymous THEN
           \E st \in {HTTP_401_UNAUTHORIZED, HTTP_403_FORBIDDEN} : Done(i, st)
       ELSE IF calls[i].pk \notin Posts THEN Done(i, HTTP_404_NOT_FOUND)
       ELSE Goto(i, "get")
    /\ UNCHANGED <<followers_rows, likes, notifications, posts, resp, prev,
                   pre, writes, feed>>
    /\ UNCHANGED other_tables

\* the SELECT of get_or_create; a stored row means created = False
like_post_get(i) ==
    /\ calls[i].op = "like" /\ calls[i].pc = "get"
    /\ LET n == likes[<<calls[i].user, calls[i].pk>>] IN
           IF n > 1 THEN Done(i, HTTP_500_INTERNAL_SERVER_ERROR)
           ELSE IF n = 1 THEN Done(i, HTTP_400_BAD_REQUEST)
           ELSE Goto(i, "create")
    /\ UNCHANGED <<followers_rows, likes, notifications, posts, resp, prev,
                   pre, writes, feed>>
    /\ UNCHANGED other_tables

\* the INSERT of get_or_create
like_post_create(i) ==
    /\ calls[i].op = "like" /\ calls[i].pc = "create"
    /\ LET r == insert_like(likes, calls[i].user, calls[i].pk) IN
           /\ likes' = r.rows
           /\ IF r.created
              THEN calls' = [calls EXCEPT ![i].pc = "notify",
                                          ![i].conflict = r.conflict]
              ELSE calls' = [calls EXCEPT ![i].pc = "done",
                                          ![i].status = HTTP_400_BAD_REQUEST,
                                          ![i].conflict = r.conflict]
    /\ UNCHANGED <<followers_rows, notifications, posts, resp, prev, pre,
                   writes, feed>>
    /\ UNCHANGED other_tables

\* like_post after created = True: the notification and the 201 response
like_post_notify(i) ==
    /\ calls[i].op = "like" /\ calls[i].pc = "notify"
    /\ IF posts[calls[i].pk].author # calls[i].user
       THEN notifications' =
                Append(notifications, Notification(calls[i].user, calls[i].pk))
       ELSE UNCHANGED notifications
    /\ Done(i, HTTP_201_CREATED)
    /\ UNCHANGED <<followers_rows, likes, posts, resp, prev, pre, writes,
                   feed>>
    /\ UNCHANGED other_tables

\* FollowUserView.post and UnfollowUserView.post up to the self check
follow_begin(i) ==
    /\ calls[i].op \in {"follow", "unfollow"} /\ calls[i].pc = "begin"
    /\ IF calls[i].user = Anonymous THEN
           \E st \in {HTTP_401_UNAUTHORIZED, HTTP_403_FORBIDDEN} : Done(i, st)
       ELSE IF calls[i].pk \notin Users THEN Done(i, HTTP_404_NOT_FOUND)
       ELSE IF calls[i].op = "follow"
               /\ follow_is_self(calls[i].pk, calls[i].user)
            THEN Done(i, HTTP_400_BAD_REQUEST)
       ELSE IF calls[i].op = "unfollow"
               /\ unfollow_is_self(calls[i].pk, calls[i].user)
            THEN Done(i, HTTP_400_BAD_REQUEST)
       ELSE Goto(i, "write")
    /\ UNCHANGED <<followers_rows, likes, notifications, posts, resp, prev,
                   pre, writes, feed>>
    /\ UNCHANGED other_tables

\* request.user.following.add(target_user) of FollowUserView.post: one
\* INSERT that ignores a conflict with a stored row, and the response
follow_add(i) ==
    /\ calls[i].op = "follow" /\ calls[i].pc = "write"
    /\ followers_rows' =
           related_add(followers_rows, calls[i].user, calls[i].pk)
    /\ writes' = Append(writes, "add")
    /\ Done(i, HTTP_200_OK)
    /\ UNCHANGED <<likes, notifications, posts, resp, prev, pre, feed>>
    /\ UNCHANGED other_tables

\* request.user.following.remove(target_user) of UnfollowUserView.post: one
\* DELETE, and the response
unfollow_remove(i) ==
    /\ calls[i].op = "unfollow" /\ calls[i].pc = "write"
    /\ followers_rows' =
           related_remove(followers_rows, calls[i].user, calls[i].pk)
    /\ writes' = Append(writes, "remove")
    /\ Done(i, HTTP_200_OK)
    /\ UNCHANGED <<likes, notifications, posts, resp, prev, pre, feed>>
    /\ UNCHANGED other_tables

\* the through tables sequential requests can leave: no duplicate row, no
\* row from a user to themself
ReachableGraphs ==
    {g \in [Users \X Users -> {0, 1}] : \A u \in Users : g[<<u, u>>] = 0}

\* every request in flight is a like request of a stored user on a stored
\* post; no pair is liked
InitLikeRace ==
    /\ followers_rows = [k \in Users \X Users |-> 0]
    /\ likes = [k \in Users \X Posts |-> 0]
    /\ notifications = <<>>
    /\ posts = StoredPosts
    /\ resp = NoResp
    /\ prev = NoPrev
    /\ calls \in [Procs -> {[Idle EXCEPT !.op = "like", !.user = u, !.pk = p,
                                         !.pc = "begin"] :
                                u \in Users, p \in Posts}]
    /\ writes = <<>>
    /\ feed = NoFeed
    /\ NoOtherTables
    /\ pre = Snapshot

\* every request in flight is a follow or an unfollow request of the same
\* user a on the same other user b
InitFollowRace ==
    /\ followers_rows \in ReachableGraphs
    /\ likes = [k \in Users \X Posts |-> 0]
    /\ notifications = <<>>
    /\ posts = StoredPosts
    /\ resp = NoResp
    /\ prev = NoPrev
    /\ \E a \in Users : \E b \in Users \ {a} :
           calls \in [Procs -> {[Idle EXCEPT !.op = o, !.user = a, !.pk = b,
                                              !.pc = "begin"] :
                                     o \in {"follow", "unfollow"}}]
    /\ writes = <<>>
    /\ feed = NoFeed
    /\ NoOtherTables
    /\ pre = Snapshot

LikeBegin == \E i \in Procs : like_post_begin(i)

LikeGet == \E i \in Procs : like_post_get(i)

LikeCreate == \E i \in Procs : like_post_create(i)

LikeNotify == \E i \in Procs : like_post_notify(i)

FollowBegin == \E i \in Procs : follow_begin(i)

FollowAdd == \E i \in Procs : follow_add(i)

UnfollowRemove == \E i \in Procs : unfollow_remove(i)

NextLikeRace == LikeBegin \/ LikeGet \/ LikeCreate \/ LikeNotify

NextFollowRace == FollowBegin \/ FollowAdd \/ UnfollowRemove

\* like requests handled at the same time
SpecLikeRace == InitLikeRace /\ [][NextLikeRace]_vars

\* follow and unfollow requests on one edge handled at the same time
SpecFollowRace == InitFollowRace /\ [][NextFollowRace]_vars

\* ------------------------------------------------------------------ feed
\* the sequences of n post rows
PostRows(n) == [1..n -> [author : Users, created_at : 1..MaxTime]]

\* the Post tables of the feed specification: post pk = position, any author
\* and any creation time for each post
PostTables == UNION {PostRows(n) : n \in 0..MaxFeedPosts}

feed_posts_followers(user) ==
    {p \in DOMAIN posts : posts[p].author \in followers(user)}
\* Post.objects.filter(author__in=user.following.all())
feed_posts(user) == {p \in DOMAIN posts : posts[p].author \in following(user)}

order_by_ascending(ids) ==
    {o \in [1..Cardinality(ids) -> ids] :
        /\ \A i, j \in DOMAIN o : i # j => o[i] # o[j]
        /\ \A i, j \in DOMAIN o :
               i < j => posts[o[i]].created_at <= posts[o[j]].created_at}
\* .order_by('-created_at'): the orders in which the database may return the
\* rows; rows with equal created_at come in any order
order_by_created_at_desc(ids) ==
    {o \in [1..Cardinality(ids) -> ids] :
        /\ \A i, j \in DOMAIN o : i # j => o[i] # o[j]
        /\ \A i, j \in DOMAIN o :
               i < j => posts[o[i]].created_at >= posts[o[j]].created_at}

\* GET feed/: FeedView.get_queryset behind IsAuthenticated
FeedView_get(user) ==
    /\ IF user = Anonymous THEN
           /\ \E st \in {HTTP_401_UNAUTHORIZED, HTTP_403_FORBIDDEN} :
                  Record("feed", user, 0, st)
           /\ feed' = NoFeed
       ELSE
           /\ \E o \in order_by_created_at_desc(feed_posts(user)) :
                  feed' = [user |-> user, ids |-> o]
           /\ Record("feed", user, 0, HTTP_200_OK)
    /\ UNCHANGED <<followers_rows, likes, notifications, posts, calls,
                   writes>>
    /\ UNCHANGED other_tables

\* any follow graph and any Post table sequential requests can leave
InitFeed ==
    /\ followers_rows \in ReachableGraphs
    /\ likes = [k \in Users \X Posts |-> 0]
    /\ notifications = <<>>
    /\ posts \in PostTables
    /\ resp = NoResp
    /\ prev = NoPrev
    /\ calls = [i \in Procs |-> Idle]
    /\ writes = <<>>
    /\ feed = NoFeed
    /\ NoOtherTables
    /\ pre = Snapshot

Feed == \E user \in Callers : FeedView_get(user)

NextFeed == Feed

\* feed queries on a stored follow graph and Post table
SpecFeed == InitFeed /\ [][NextFeed]_vars

NextSocial == Follow \/ Unfollow \/ Like \/ Unlike \/ Feed

\* follow, unfollow, like, unlike and feed requests
SpecSocial == Init /\ [][NextSocial]_vars

\* ------------------------------------------------------------------ claims
\* the last request came from a stored user and named a stored user
GraphCall(op) == resp.op = op /\ resp.user \in Users /\ resp.pk \in Users

\* the last request came from a stored user and named a stored post
EngageCall(op) == resp.op = op /\ resp.user \in Users /\ resp.pk \in Posts

\* the through-table key of the edge "resp.user follows resp.pk"
RespEdge == <<resp.pk, resp.user>>

\* the Like key of the pair the last request was about
RespPair == <<resp.user, resp.pk>>

\* followingOf(u) before the last request
PreFollowing(u) == {v \in Users : pre.followers_rows[<<v, u>>] > 0}

\* the step is a request with the caller and pk of the request before it
SameTarget == resp'.user = resp.user /\ resp'.pk = resp.pk

\* C1: in every state reachable by follow and unfollow requests no user is
\* in their own following set
C1_NoSelfFollow == \A u \in Users : u \notin following(u)

\* a self-follow request was made and rejected while the caller follows
\* somebody else
C1_Witness ==
    /\ GraphCall("follow") /\ resp.pk = resp.user
    /\ resp.status = HTTP_400_BAD_REQUEST
    /\ following(resp.user) # {}

\* C2: a follow request of a user on themself is answered 400 and leaves the
\* follow relation as it was; a follow request on another stored user is
\* answered with success and the edge is present afterwards
C2_FollowOutcome ==
    GraphCall("follow") =>
        IF resp.pk = resp.user
        THEN /\ resp.status = HTTP_400_BAD_REQUEST
             /\ followers_rows = pre.followers_rows
        ELSE /\ resp.status = HTTP_200_OK
             /\ resp.pk \in following(resp.user)

\* a follow request on another user inserted an edge that was not there
C2_Witness ==
    /\ GraphCall("follow") /\ resp.pk # resp.user
    /\ resp.status = HTTP_200_OK
    /\ resp.pk \notin PreFollowing(resp.user)
    /\ resp.pk \in following(resp.user)

\* C3: a follow request that repeats the successful follow request before it
\* succeeds as well and leaves the follow relation exactly as the first left
\* it; when the first started from the empty graph, followingOf(a) = {b}
\* after the second
C3_FollowIdempotent ==
    [][(/\ GraphCall("follow") /\ resp.status = HTTP_200_OK
        /\ resp'.op = "follow" /\ SameTarget)
       => /\ resp'.status = HTTP_200_OK
          /\ followers_rows' = followers_rows
          /\ (\A k \in DOMAIN followers_rows : pre.followers_rows[k] = 0)
                 => following(resp.user)' = {resp.pk}]_vars

\* follow(a,b) was issued twice in a row and a follows exactly b
C3_Witness ==
    /\ GraphCall("follow") /\ resp.status = HTTP_200_OK
    /\ prev = [op |-> "follow", status |-> HTTP_200_OK]
    /\ following(resp.user) = {resp.pk}
    /\ following_count(resp.user) = 1

\* C4: an unfollow request right after the successful follow request of the
\* same caller on the same target succeeds; it leaves followingOf(a) empty
\* when a followed nobody before the follow, and restores the relation that
\* held before the follow when the edge was absent then
C4_FollowThenUnfollow ==
    [][(/\ GraphCall("follow") /\ resp.status = HTTP_200_OK
        /\ resp'.op = "unfollow" /\ SameTarget)
       => /\ resp'.status = HTTP_200_OK
          /\ PreFollowing(resp.user) = {} => following(resp.user)' = {}
          /\ pre.followers_rows[RespEdge] = 0
                 => followers_rows' = pre.followers_rows]_vars

\* unfollow(a,b) right after follow(a,b) removed the edge; a follows nobody
C4_Witness ==
    /\ GraphCall("unfollow") /\ resp.status = HTTP_200_OK
    /\ prev = [op |-> "follow", status |-> HTTP_200_OK]
    /\ resp.pk \in PreFollowing(resp.user)
    /\ following(resp.user) = {}

\* C5, as claimed: an unfollow request between stored users is answered with
\* success; it leaves the relation unchanged when the edge is absent and
\* removes exactly that edge when it is present
C5_UnfollowAnyPair ==
    GraphCall("unfollow") =>
        /\ resp.status = HTTP_200_OK
        /\ followers_rows = [pre.followers_rows EXCEPT ![RespEdge] = 0]

\* C5, amended: the same for an unfollow request on another stored user; an
\* unfollow request of a user on themself is answered 400 and changes nothing
C5_UnfollowOutcome ==
    GraphCall("unfollow") =>
        IF resp.pk = resp.user
        THEN /\ resp.status = HTTP_400_BAD_REQUEST
             /\ followers_rows = pre.followers_rows
        ELSE /\ resp.status = HTTP_200_OK
             /\ followers_rows = [pre.followers_rows EXCEPT ![RespEdge] = 0]
             /\ resp.pk \notin PreFollowing(resp.user)
                    => followers_rows = pre.followers_rows

\* an unfollow request on an absent edge succeeded right after an unfollow
\* request had removed that edge, while the reverse edge stayed
C5_Witness ==
    /\ GraphCall("unfollow") /\ resp.pk # resp.user
    /\ resp.status = HTTP_200_OK
    /\ prev = [op |-> "unfollow", status |-> HTTP_200_OK]
    /\ resp.pk \notin PreFollowing(resp.user)
    /\ resp.user \in following(resp.pk)

\* C6: a follow or unfollow request changes at most the edge from its caller
\* to its target; every other edge, the reverse one included, is as before
C6_OnlyOneEdge ==
    resp.op \in {"follow", "unfollow"} =>
        \A k \in DOMAIN followers_rows :
            k # RespEdge => followers_rows[k] = pre.followers_rows[k]

\* a follows b after follow(a,b) and b does not follow a
C6_Witness ==
    /\ GraphCall("follow") /\ resp.status = HTTP_200_OK
    /\ resp.pk \notin PreFollowing(resp.user)
    /\ resp.pk \in following(resp.user)
    /\ resp.user \notin following(resp.pk)

\* C7: followersOf is the exact reverse of followingOf, and a successful
\* follow request puts its caller among the followers of its target
C7_FollowersReverse ==
    /\ \A a, b \in Users : b \in following(a) <=> a \in followers(b)
    /\ (GraphCall("follow") /\ resp.status = HTTP_200_OK)
           => resp.user \in followers(resp.pk)

\* b is followed by a and does not follow a
C7_Witness ==
    \E a, b \in Users :
        /\ b \in following(a) /\ a \in followers(b)
        /\ a \notin following(b) /\ b \notin followers(a)

\* C8: following_count and followers_count of every user equal the number
\* of distinct users in followingOf and followersOf
C8_CountsMatch ==
    \A u \in Users :
        /\ following_count(u) = Cardinality(following(u))
        /\ followers_count(u) = Cardinality(followers(u))

\* a repeated follow request, with the counts of caller and target at one
C8_Witness ==
    /\ GraphCall("follow") /\ resp.status = HTTP_200_OK
    /\ prev = [op |-> "follow", status |-> HTTP_200_OK]
    /\ following_count(resp.user) = 1
    /\ followers_count(resp.pk) = 1
    /\ followers_count(resp.user) = 0

\* the pair (u, p) is LIKED
LIKED(rows, u, p) == rows[<<u, p>>] > 0

\* C9: every pair starts NOT_LIKED; a like request succeeds exactly when the
\* pair was NOT_LIKED and leaves it LIKED, an unlike request succeeds exactly
\* when the pair was LIKED and leaves it NOT_LIKED, and any other like or
\* unlike request is answered 400 and leaves the pair in its state
C9_LikeStateMachine ==
    /\ resp.op = "none" => \A k \in DOMAIN likes : ~LIKED(likes, k[1], k[2])
    /\ EngageCall("like") =>
        IF ~LIKED(pre.likes, resp.user, resp.pk)
        THEN /\ resp.status = HTTP_201_CREATED
             /\ LIKED(likes, resp.user, resp.pk)
        ELSE /\ resp.status = HTTP_400_BAD_REQUEST
             /\ LIKED(likes, resp.user, resp.pk)
    /\ EngageCall("unlike") =>
        IF LIKED(pre.likes, resp.user, resp.pk)
        THEN /\ resp.status = HTTP_200_OK
             /\ ~LIKED(likes, resp.user, resp.pk)
        ELSE /\ resp.status = HTTP_400_BAD_REQUEST
             /\ ~LIKED(likes, resp.user, resp.pk)

\* a pair went LIKED, NOT_LIKED and LIKED again
C9_Witness ==
    /\ EngageCall("like") /\ resp.status = HTTP_201_CREATED
    /\ prev = [op |-> "unlike", status |-> HTTP_200_OK]
    /\ LIKED(likes, resp.user, resp.pk)

\* C10: a like request on a pair that already has a Like is answered 400 and
\* leaves the likes and the notifications exactly as they were
C10_DuplicateLike ==
    (EngageCall("like") /\ pre.likes[RespPair] > 0) =>
        /\ resp.status = HTTP_400_BAD_REQUEST
        /\ likes = pre.likes
        /\ notifications = pre.notifications

\* a user liked another user's post twice in a row: one Like, one
\* notification
C10_Witness ==
    /\ EngageCall("like") /\ resp.status = HTTP_400_BAD_REQUEST
    /\ prev = [op |-> "like", status |-> HTTP_201_CREATED]
    /\ posts[resp.pk].author # resp.user
    /\ likes[RespPair] = 1
    /\ Len(notifications) = 1

\* C11: an unlike request on a pair without a Like is answered 400 and
\* leaves likes and notifications as they were; on a pair with a Like it
\* deletes that Like, and nothing else, and is answered with success
C11_UnlikeOutcome ==
    EngageCall("unlike") =>
        IF pre.likes[RespPair] = 0
        THEN /\ resp.status = HTTP_400_BAD_REQUEST
             /\ likes = pre.likes
             /\ notifications = pre.notifications
        ELSE /\ resp.status = HTTP_200_OK
             /\ likes = [pre.likes EXCEPT ![RespPair] = 0]

\* an unlike request was refused right after the unlike request that had
\* deleted the Like, while another user's Like on the post stayed
C11_Witness ==
    /\ EngageCall("unlike") /\ resp.status = HTTP_400_BAD_REQUEST
    /\ prev = [op |-> "unlike", status |-> HTTP_200_OK]
    /\ \E v \in Users : v # resp.user /\ likes[<<v, resp.pk>>] = 1

\* C12: in every state reachable by like and unlike requests there is at
\* most one Like row for each (user, post) pair
C12_AtMostOneLike == \A k \in DOMAIN likes : likes[k] <= 1

\* a repeated like request was refused while every user has exactly one Like
\* on the post
C12_Witness ==
    /\ EngageCall("like") /\ resp.status = HTTP_400_BAD_REQUEST
    /\ \A u \in Users : likes[<<u, resp.pk>>] = 1

\* the notification C13 expects of a successful like of post p by user u
\* with the given verb
ExpectedNotification(u, p, verb) ==
    [actor |-> u, recipient |-> posts[p].author, verb |-> verb,
     target_object_id |-> p]

\* what a successful like request does to the notifications, for a verb
LikeEmits(verb) ==
    (EngageCall("like") /\ resp.status = HTTP_201_CREATED) =>
        IF posts[resp.pk].author # resp.user
        THEN notifications =
                 Append(pre.notifications,
                        ExpectedNotification(resp.user, resp.pk, verb))
        ELSE notifications = pre.notifications

\* no stored notification has its actor as recipient
NoSelfNotification ==
    \A i \in 1..Len(notifications) :
        notifications[i].actor # notifications[i].recipient

\* C13, as claimed: a successful like of another user's post appends exactly
\* one notification with that actor, the author as recipient, verb "liked"
\* and the post as target; a successful like of the own post appends none;
\* no notification has actor = recipient
C13_NotificationVerbLiked == LikeEmits("liked") /\ NoSelfNotification

\* C13, amended: the same with the verb the view writes, "liked your post"
C13_NotificationOnLike == LikeEmits("liked your post") /\ NoSelfNotification

\* the author liked the own post after another user's like: one notification
C13_Witness ==
    /\ EngageCall("like") /\ resp.status = HTTP_201_CREATED
    /\ posts[resp.pk].author = resp.user
    /\ Len(notifications) = 1
    /\ notifications[1].actor # resp.user
    /\ notifications[1].recipient = resp.user

\* C14: no request removes or alters a stored notification: after every
\* follow, unfollow, like or unlike request the notifications before it are
\* a prefix of the notifications after it, and an unlike request leaves them
\* exactly as they were
C14_NotificationsAppendOnly ==
    [][/\ Len(notifications') >= Len(notifications)
       /\ SubSeq(notifications', 1, Len(notifications)) = notifications
       /\ resp'.op \in {"unlike", "follow", "unfollow"}
              => notifications' = notifications]_vars

\* an unlike request right after the like request of the same user on the
\* same post succeeded, and the notification of that like is still stored
C14_Witness ==
    /\ EngageCall("unlike") /\ resp.status = HTTP_200_OK
    /\ prev = [op |-> "like", status |-> HTTP_201_CREATED]
    /\ ~LIKED(likes, resp.user, resp.pk)
    /\ Len(notifications) >= 1
    /\ notifications[Len(notifications)].actor = resp.user
    /\ notifications[Len(notifications)].target_object_id = resp.pk

\* C15: a like request whose notification could not be created leaves the
\* Like it created in place: the pair is LIKED, with one row, and no
\* notification was stored
C15_LikeStandsOnEmitFailure ==
    (EngageCall("like") /\ resp.status = HTTP_500_INTERNAL_SERVER_ERROR) =>
        /\ pre.likes[RespPair] = 0
        /\ LIKED(likes, resp.user, resp.pk)
        /\ likes = [pre.likes EXCEPT ![RespPair] = 1]
        /\ notifications = pre.notifications

\* a like request failed at the notification: the pair is LIKED and there
\* is no notification
C15_Witness ==
    /\ EngageCall("like")
    /\ resp.status = HTTP_500_INTERNAL_SERVER_ERROR
    /\ LIKED(likes, resp.user, resp.pk)
    /\ notifications = <<>>

\* C16: a like request that newly created the Like is answered 201, whether
\* or not the notification could be created
C16_EmitFailureNotPropagated ==
    (EngageCall("like") /\ pre.likes[RespPair] = 0
        /\ LIKED(likes, resp.user, resp.pk))
        => resp.status = HTTP_201_CREATED

\* every request in flight has been answered
AllDone == \A i \in Procs : calls[i].pc = "done"

\* the requests in flight on the pair (u, p)
CallsOn(u, p) == {i \in Procs : calls[i].user = u /\ calls[i].pk = p}

\* the stored notifications of actor u on post p
NotificationsOf(u, p) ==
    {k \in 1..Len(notifications) :
        notifications[k].actor = u /\ notifications[k].target_object_id = p}

\* C17: when the like requests that ran at the same time from NOT_LIKED
\* are all answered, each pair that was requested has exactly one Like,
\* exactly one of its requests got 201 and the others 400, and at most one
\* notification was stored for it; at no time does a pair have two Likes
C17_ConcurrentLikes ==
    /\ \A k \in DOMAIN likes : likes[k] <= 1
    /\ AllDone =>
        \A u \in Users, p \in Posts :
            CallsOn(u, p) # {} =>
                /\ likes[<<u, p>>] = 1
                /\ Cardinality({i \in CallsOn(u, p) :
                       calls[i].status = HTTP_201_CREATED}) = 1
                /\ \A i \in CallsOn(u, p) :
                       calls[i].status
                           \in {HTTP_201_CREATED, HTTP_400_BAD_REQUEST}
                /\ Cardinality(NotificationsOf(u, p)) <= 1

\* all requests were on one pair of a user and another user's post, one of
\* them lost the INSERT to the uniqueness constraint, one notification
C17_Witness ==
    /\ AllDone
    /\ \A i \in Procs : calls[i].user = calls[1].user
                          /\ calls[i].pk = calls[1].pk
    /\ posts[calls[1].pk].author # calls[1].user
    /\ \E i \in Procs :
           calls[i].conflict /\ calls[i].status = HTTP_400_BAD_REQUEST
    /\ likes[<<calls[1].user, calls[1].pk>>] = 1
    /\ Len(notifications) = 1

\* the through-table key of the edge the requests in flight are about
RaceEdge == <<calls[1].pk, calls[1].user>>

\* C18: when the follow and unfollow requests that ran at the same time on
\* one edge are all answered, all got 200, the edge is present if the last
\* write applied was the add and absent if it was the remove, and every
\* other edge is as it was before them
C18_LastWriterWins ==
    AllDone =>
        /\ \A i \in Procs : calls[i].status = HTTP_200_OK
        /\ Len(writes) = NumConcurrent
        /\ followers_rows[RaceEdge] =
               (IF writes[Len(writes)] = "add" THEN 1 ELSE 0)
        /\ \A k \in DOMAIN followers_rows :
               k # RaceEdge => followers_rows[k] = pre.followers_rows[k]

\* a follow and an unfollow request on a stored edge, the remove applied
\* last: the edge is gone and the reverse edge is still there
C18_Witness ==
    /\ AllDone
    /\ \E i, j \in Procs : calls[i].op = "follow" /\ calls[j].op = "unfollow"
    /\ writes[Len(writes)] = "remove"
    /\ pre.followers_rows[RaceEdge] = 1
    /\ followers_rows[RaceEdge] = 0
    /\ followers_rows[<<RaceEdge[2], RaceEdge[1]>>] = 1

\* the last request was a feed query of a stored user
FeedCall == resp.op = "feed" /\ resp.status = HTTP_200_OK

\* the posts of the last feed response
FeedIds == {feed.ids[i] : i \in DOMAIN feed.ids}

\* C19: a feed response holds exactly the posts whose author the caller
\* follows at the time of the query, each once: no post of the caller and
\* no post of an author the caller has no edge to
C19_FeedMembership ==
    FeedCall =>
        /\ \A p \in DOMAIN posts :
               p \in FeedIds
                   <=> followers_rows[<<posts[p].author, feed.user>>] > 0
        /\ FeedIds \subseteq DOMAIN posts
        /\ Len(feed.ids) = Cardinality(FeedIds)
        /\ \A p \in FeedIds : posts[p].author # feed.user

\* two stored posts: the feed is the one whose author the caller follows;
\* the other is the caller's own, and the caller has a follower
C19_Witness ==
    /\ FeedCall
    /\ Len(feed.ids) = 1
    /\ Len(posts) = 2
    /\ followers(feed.user) # {}
    /\ \E p \in DOMAIN posts :
           p \notin FeedIds /\ posts[p].author = feed.user

\* C20: a feed response is ordered by creation time, newest first, and
\* posts with equal creation time by id, highest first
C20_FeedTotalOrder ==
    FeedCall =>
        \A i, j \in DOMAIN feed.ids :
            i < j =>
                \/ posts[feed.ids[i]].created_at
                       > posts[feed.ids[j]].created_at
                \/ /\ posts[feed.ids[i]].created_at
                          = posts[feed.ids[j]].created_at
                   /\ feed.ids[i] > feed.ids[j]

\* C21: a feed query changes no follow edge, post, like or notification, and
\* a feed query right after a feed query of the same user, with no write
\* between them, returns the same sequence
C21_FeedRestartable ==
    /\ resp.op = "feed" =>
           /\ followers_rows = pre.followers_rows
           /\ posts = pre.posts
           /\ likes = pre.likes
           /\ notifications = pre.notifications
    /\ (FeedCall /\ prev = [op |-> "feed", status |-> HTTP_200_OK])
           => feed.ids = pre.feed.ids

\* the stored rows are the rows before the last request
TablesUnchanged ==
    /\ followers_rows = pre.followers_rows
    /\ likes = pre.likes
    /\ notifications = pre.notifications
    /\ posts = pre.posts

\* C22: a follow or unfollow request of a stored user on a user pk that no
\* row has, and a like or unlike request of a stored user on a post pk that
\* no row has, is answered 404 and leaves follow edges, likes and
\* notifications as they were
C22_NotFound ==
    /\ (resp.op \in {"follow", "unfollow"} /\ resp.user \in Users
            /\ resp.pk \notin Users)
           => resp.status = HTTP_404_NOT_FOUND /\ TablesUnchanged
    /\ (resp.op \in {"like", "unlike"} /\ resp.user \in Users
            /\ resp.pk \notin Posts)
           => resp.status = HTTP_404_NOT_FOUND /\ TablesUnchanged

\* an unlike request on a missing post was answered 404 while a follow
\* edge, a Like of the caller and a notification are stored
C22_Witness ==
    /\ resp.op = "unlike" /\ resp.user \in Users
    /\ resp.pk = MissingPostPk
    /\ resp.status = HTTP_404_NOT_FOUND
    /\ \E p \in Posts : likes[<<resp.user, p>>] = 1
    /\ Len(notifications) >= 1
    /\ \E k \in DOMAIN followers_rows : followers_rows[k] = 1

\* C23: a follow, unfollow, feed, like or unlike request without valid
\* credentials is answered 401 or 403, gets no feed, and leaves follow edges,
\* likes, notifications and posts as they were
C23_UnauthenticatedRejected ==
    (resp.op \in {"follow", "unfollow", "feed", "like", "unlike"}
        /\ resp.user = Anonymous)
       => /\ resp.status \in {HTTP_401_UNAUTHORIZED, HTTP_403_FORBIDDEN}
          /\ TablesUnchanged
          /\ resp.op = "feed" => feed = NoFeed

\* an anonymous like request on a stored post somebody else likes was
\* rejected, and the post has no Like more than before
C23_Witness ==
    /\ resp.op = "like" /\ resp.user = Anonymous /\ resp.pk \in Posts
    /\ resp.status = HTTP_401_UNAUTHORIZED
    /\ \E u \in Users : likes[<<u, resp.pk>>] = 1
    /\ \E k \in DOMAIN followers_rows : followers_rows[k] = 1

\* C24: a like or unlike request changes at most the Like of its caller on
\* its post: the Likes of every other pair, and so every other user's Like,
\* are as they were before the request
C24_OnlyOwnLike ==
    resp.op \in {"like", "unlike"} =>
        \A k \in DOMAIN likes :
            k # RespPair => likes[k] = pre.likes[k]

\* a user's unlike request deleted their Like while another user's Like on
\* the same post stayed
C24_Witness ==
    /\ EngageCall("unlike") /\ resp.status = HTTP_200_OK
    /\ pre.likes[RespPair] = 1 /\ likes[RespPair] = 0
    /\ \E v \in Users :
           v # resp.user /\ pre.likes[<<v, resp.pk>>] = 1
                         /\ likes[<<v, resp.pk>>] = 1

\* ------------------------------------------------------------ PostViewSet
\* posts/ of social_media_api: a ModelViewSet behind IsAuthenticatedOrReadOnly
\* and IsOwnerOrReadOnly.  A row is [author, created_at, content].
NumContents == 2
MaxPostPk == 2

HTTP_204_NO_CONTENT == 204

\* the values a request may send as content
Contents == 1..NumContents

\* the pks a request may name: every pk the table can give out and one more
ViewSetPks == 1..(MaxPostPk + 1)

\* permissions.SAFE_METHODS
SAFE_METHODS == {"GET", "HEAD", "OPTIONS"}

\* IsAuthenticatedOrReadOnly.has_permission
has_permission(method, user) == method \in SAFE_METHODS \/ user # Anonymous

has_object_permission_any_user(method, obj, user) == TRUE
\* IsOwnerOrReadOnly.has_object_permission
has_object_permission(method, obj, user) ==
    IF method \in SAFE_METHODS THEN TRUE ELSE obj.author = user

\* serializer.save(author=self.request.user) on a new row
post_insert(rows, pk, user, content) ==
    [p \in DOMAIN rows \cup {pk} |->
        IF p = pk
        THEN [author |-> user, created_at |-> pk, content |-> content]
        ELSE rows[p]]

\* instance.delete()
post_delete(rows, pk) == [p \in DOMAIN rows \ {pk} |-> rows[p]]

\* the response of a request to the viewset; the request before it is not
\* kept
PostRespond(op, user, pk, status, content) ==
    /\ resp' = [op |-> op, user |-> user, pk |-> pk, status |-> status,
                error |-> "", data |-> [content |-> content]]
    /\ prev' = NoPrev
    /\ pre' = Snapshot
    /\ UNCHANGED <<followers_rows, likes, notifications, calls, writes, feed,
                   books, comments, tags>>

\* check_permissions failed: 401 or 403, by the configured authenticators
PostDenied(op, user, pk, content) ==
    /\ \E st \in {HTTP_401_UNAUTHORIZED, HTTP_403_FORBIDDEN} :
           PostRespond(op, user, pk, st, content)
    /\ UNCHANGED <<posts, post_seq>>

\* POST posts/: CreateModelMixin.create with PostViewSet.perform_create
PostViewSet_create(user, content) ==
    IF ~has_permission("POST", user) THEN PostDenied("create", user, 0, content)
    ELSE
        /\ post_seq < MaxPostPk
        /\ post_seq' = post_seq + 1
        /\ posts' = post_insert(posts, post_seq + 1, user, content)
        /\ PostRespond("create", user, post_seq + 1, HTTP_201_CREATED, content)

\* PUT posts/<pk>/: UpdateModelMixin.update
PostViewSet_update(user, pk, content) ==
    IF ~has_permission("PUT", user) THEN PostDenied("update", user, pk, content)
    ELSE IF pk \notin DOMAIN posts THEN
        /\ PostRespond("update", user, pk, HTTP_404_NOT_FOUND, content)
        /\ UNCHANGED <<posts, post_seq>>
    ELSE IF ~has_object_permission("PUT", posts[pk], user) THEN
        /\ PostRespond("update", user, pk, HTTP_403_FORBIDDEN, content)
        /\ UNCHANGED <<posts, post_seq>>
    ELSE
        /\ posts' = [posts EXCEPT ![pk].content = content]
        /\ PostRespond("update", user, pk, HTTP_200_OK, content)
        /\ UNCHANGED post_seq

\* DELETE posts/<pk>/: DestroyModelMixin.destroy
PostViewSet_destroy(user, pk) ==
    IF ~has_permission("DELETE", user) THEN PostDenied("destroy", user, pk, 0)
    ELSE IF pk \notin DOMAIN posts THEN
        /\ PostRespond("destroy", user, pk, HTTP_404_NOT_FOUND, 0)
        /\ UNCHANGED <<posts, post_seq>>
    ELSE IF ~has_object_permission("DELETE", posts[pk], user) THEN
        /\ PostRespond("destroy", user, pk, HTTP_403_FORBIDDEN, 0)
        /\ UNCHANGED <<posts, post_seq>>
    ELSE
        /\ posts' = post_delete(posts, pk)
        /\ PostRespond("destroy", user, pk, HTTP_204_NO_CONTENT, 0)
        /\ UNCHANGED post_seq

\* GET posts/<pk>/: RetrieveModelMixin.retrieve
PostViewSet_retrieve(user, pk) ==
    IF ~has_permission("GET", user) THEN PostDenied("retrieve", user, pk, 0)
    ELSE IF pk \notin DOMAIN posts THEN
        /\ PostRespond("retrieve", user, pk, HTTP_404_NOT_FOUND, 0)
        /\ UNCHANGED <<posts, post_seq>>
    ELSE IF ~has_object_permission("GET", posts[pk], user) THEN
        /\ PostRespond("retrieve", user, pk, HTTP_403_FORBIDDEN, 0)
        /\ UNCHANGED <<posts, post_seq>>
    ELSE
        /\ PostRespond("retrieve", user, pk, HTTP_200_OK, 0)
        /\ UNCHANGED <<posts, post_seq>>

\* no post was created yet
InitPosts ==
    /\ followers_rows = [k \in Users \X Users |-> 0]
    /\ likes = [k \in Users \X Posts |-> 0]
    /\ notifications = <<>>
    /\ posts = <<>>
    /\ post_seq = 0
    /\ resp = NoResp
    /\ prev = NoPrev
    /\ calls = [i \in Procs |-> Idle]
    /\ writes = <<>>
    /\ feed = NoFeed
    /\ books = <<>>
    /\ comments = <<>>
    /\ tags = <<>>
    /\ pre = Snapshot

PostCreate ==
    \E user \in Callers, content \in Contents :
        PostViewSet_create(user, content)

PostUpdate ==
    \E user \in Callers, pk \in ViewSetPks, content \in Contents :
        PostViewSet_update(user, pk, content)

PostDestroy ==
    \E user \in Callers, pk \in ViewSetPks : PostViewSet_destroy(user, pk)

PostRetrieve ==
    \E user \in Callers, pk \in ViewSetPks : PostViewSet_retrieve(user, pk)

NextPosts == PostCreate \/ PostUpdate \/ PostDestroy \/ PostRetrieve

\* create, update, delete and read requests on posts
SpecPosts == InitPosts /\ [][NextPosts]_vars

\* the last request named a post that was stored, written by its caller
ByAuthor ==
    /\ resp.pk \in DOMAIN pre.posts
    /\ pre.posts[resp.pk].author = resp.user

\* every post but the one the last request named is as it was
OtherPostsUnchanged ==
    \A p \in (DOMAIN posts \cup DOMAIN pre.posts) \ {resp.pk} :
        /\ p \in DOMAIN posts /\ p \in DOMAIN pre.posts
        /\ posts[p] = pre.posts[p]

\* C25: a created post has the requesting user as author; an update or
\* delete request changes the post only when its caller is the author of the
\* post, and then it succeeds; from any other caller it is rejected and
\* leaves the posts as they were; a read request of a stored post succeeds
\* for every caller, the anonymous one included, and changes nothing
C25_AuthorOnly ==
    /\ resp.op = "create" =>
           IF resp.user \in Users
           THEN /\ resp.status = HTTP_201_CREATED
                /\ resp.pk \notin DOMAIN pre.posts
                /\ resp.pk \in DOMAIN posts
                /\ posts[resp.pk].author = resp.user
                /\ OtherPostsUnchanged
           ELSE /\ resp.status \in {HTTP_401_UNAUTHORIZED, HTTP_403_FORBIDDEN}
                /\ posts = pre.posts
    /\ resp.op = "update" =>
           IF ByAuthor
           THEN /\ resp.status = HTTP_200_OK
                /\ posts =
                       [pre.posts EXCEPT ![resp.pk].content = resp.data.content]
           ELSE /\ resp.status \in {HTTP_401_UNAUTHORIZED, HTTP_403_FORBIDDEN,
                                     HTTP_404_NOT_FOUND}
                /\ posts = pre.posts
    /\ resp.op = "destroy" =>
           IF ByAuthor
           THEN /\ resp.status = HTTP_204_NO_CONTENT
                /\ resp.pk \notin DOMAIN posts
                /\ OtherPostsUnchanged
           ELSE /\ resp.status \in {HTTP_401_UNAUTHORIZED, HTTP_403_FORBIDDEN,
                                     HTTP_404_NOT_FOUND}
                /\ posts = pre.posts
    /\ resp.op = "retrieve" =>
           /\ posts = pre.posts
           /\ resp.pk \in DOMAIN posts => resp.status = HTTP_200_OK

\* a stored user's update of another user's post, with another content,
\* was answered 403 while the caller has a post of their own
C25_Witness ==
    /\ resp.op = "update" /\ resp.user \in Users
    /\ resp.pk \in DOMAIN posts
    /\ posts[resp.pk].author # resp.user
    /\ posts[resp.pk].content # resp.data.content
    /\ resp.status = HTTP_403_FORBIDDEN
    /\ \E p \in DOMAIN posts : posts[p].author = resp.user

\* -------------------------------------------------------- library catalog
\* api/ of advanced-api-project: BookCreateView and BookUpdateView.  A Book
\* row is [title, author]; its pk is its position in books.  The requests
\* are in flight at the same time; each statement that reads or writes the
\* Book table is one step.  (api/views.py indents the docstring of
\* BookListView by three columns, which Python rejects; the views are
\* modelled as they read.)
NumTitles == 2
NumAuthors == 2
MaxBooks == 2

Titles == 1..NumTitles

\* pks of the stored Author rows
Authors == 1..NumAuthors

\* a field a PATCH request does not send
NotSent == 0

\* the pks a request may name: the stored books and one more
BookPks == 1..(MaxBooks + 1)

\* the Book tables of n rows
BookRows(n) == [1..n -> [title : Titles, author : Authors]]

\* no two rows of the table have the same title and author
title_author_unique(rows) ==
    \A a, b \in DOMAIN rows :
        a # b => <<rows[a].title, rows[a].author>>
                    # <<rows[b].title, rows[b].author>>

\* the Book tables requests handled one after the other can leave
BookTables ==
    {rows \in UNION {BookRows(n) : n \in 0..MaxBooks} :
        title_author_unique(rows)}

\* Book.objects.filter(title=title, author=author).exists()
book_exists(rows, title, author) ==
    \E b \in DOMAIN rows : rows[b].title = title /\ rows[b].author = author

\* Book.objects.exclude(pk=pk).filter(title=title, author=author).exists()
book_exists_exclude(rows, pk, title, author) ==
    \E b \in DOMAIN rows \ {pk} :
        rows[b].title = title /\ rows[b].author = author

\* serializer.validated_data.get(field, instance.field)
validated_get(sent, stored) == IF sent = NotSent THEN stored ELSE sent

\* a create or update request as it arrives; inst is the row get_object
\* returned to UpdateAPIView.update
BookRequests ==
    {[op |-> "create", user |-> u, pk |-> 0, title |-> t, author |-> a,
      inst |-> [title |-> NotSent, author |-> NotSent], pc |-> "begin",
      status |-> 0] : u \in Callers, t \in Titles, a \in Authors}
    \cup
    {[op |-> "update", user |-> u, pk |-> k, title |-> t, author |-> a,
      inst |-> [title |-> NotSent, author |-> NotSent], pc |-> "begin",
      status |-> 0] :
        u \in Callers, k \in BookPks, t \in Titles \cup {NotSent},
        a \in Authors \cup {NotSent}}

\* the steps of the catalog leave everything but books and calls alone
BookFrame ==
    UNCHANGED <<followers_rows, likes, notifications, posts, resp, prev, pre,
                writes, feed, post_seq, comments, tags>>

\* BookCreateView up to perform_create: permission_classes
BookCreateView_begin(i) ==
    /\ calls[i].op = "create" /\ calls[i].pc = "begin"
    /\ IF calls[i].user = Anonymous THEN
           \E st \in {HTTP_401_UNAUTHORIZED, HTTP_403_FORBIDDEN} : Done(i, st)
       ELSE Goto(i, "check")
    /\ UNCHANGED books
    /\ BookFrame

\* the existence check of BookCreateView.perform_create
perform_create_check(i) ==
    /\ calls[i].op = "create" /\ calls[i].pc = "check"
    /\ IF book_exists(books, calls[i].title, calls[i].author)
       THEN Done(i, HTTP_400_BAD_REQUEST)
       ELSE Goto(i, "save")
    /\ UNCHANGED books
    /\ BookFrame

\* serializer.save() of BookCreateView.perform_create, and the response
perform_create_save(i) ==
    /\ calls[i].op = "create" /\ calls[i].pc = "save"
    /\ books' = Append(books, [title |-> calls[i].title,
                                author |-> calls[i].author])
    /\ Done(i, HTTP_201_CREATED)
    /\ BookFrame

\* BookUpdateView up to perform_update: permission_classes and the
\* get_object of UpdateAPIView.update, whose row the serializer keeps
BookUpdateView_begin(i) ==
    /\ calls[i].op = "update" /\ calls[i].pc = "begin"
    /\ IF calls[i].user = Anonymous THEN
           \E st \in {HTTP_401_UNAUTHORIZED, HTTP_403_FORBIDDEN} : Done(i, st)
       ELSE IF calls[i].pk \notin DOMAIN books THEN
           Done(i, HTTP_404_NOT_FOUND)
       ELSE calls' = [calls EXCEPT ![i].pc = "check",
                                   ![i].inst = books[calls[i].pk]]
    /\ UNCHANGED books
    /\ BookFrame

\* get_object and the existence check of BookUpdateView.perform_update
perform_update_check(i) ==
    /\ calls[i].op = "update" /\ calls[i].pc = "check"
    /\ LET instance == books[calls[i].pk]
           title == validated_get(calls[i].title, instance.title)
           author == validated_get(calls[i].author, instance.author)
       IN IF book_exists_exclude(books, calls[i].pk, title, author)
          THEN Done(i, HTTP_400_BAD_REQUEST)
          ELSE Goto(i, "save")
    /\ UNCHANGED books
    /\ BookFrame

\* serializer.save() of BookUpdateView.perform_update: the row the
\* serializer holds, with the fields sent, is written back whole
perform_update_save(i) ==
    /\ calls[i].op = "update" /\ calls[i].pc = "save"
    /\ books' =
           [books EXCEPT ![calls[i].pk] =
               [title |-> validated_get(calls[i].title, calls[i].inst.title),
                author |->
                    validated_get(calls[i].author, calls[i].inst.author)]]
    /\ Done(i, HTTP_200_OK)
    /\ BookFrame

\* a Book table left by earlier requests, and the requests in flight
InitBookRace ==
    /\ followers_rows = [k \in Users \X Users |-> 0]
    /\ likes = [k \in Users \X Posts |-> 0]
    /\ notifications = <<>>
    /\ posts = StoredPosts
    /\ post_seq = NumPosts
    /\ resp = NoResp
    /\ prev = NoPrev
    /\ calls \in [Procs -> BookRequests]
    /\ writes = <<>>
    /\ feed = NoFeed
    /\ books \in BookTables
    /\ comments = <<>>
    /\ tags = <<>>
    /\ pre = Snapshot

BookCreateBegin == \E i \in Procs : BookCreateView_begin(i)

BookCreateCheck == \E i \in Procs : perform_create_check(i)

BookCreateSave == \E i \in Procs : perform_create_save(i)

BookUpdateBegin == \E i \in Procs : BookUpdateView_begin(i)

BookUpdateCheck == \E i \in Procs : perform_update_check(i)

BookUpdateSave == \E i \in Procs : perform_update_save(i)

NextBookRace ==
    \/ BookCreateBegin \/ BookCreateCheck \/ BookCreateSave
    \/ BookUpdateBegin \/ BookUpdateCheck \/ BookUpdateSave

\* create and update requests on books handled at the same time
SpecBookRace == InitBookRace /\ [][NextBookRace]_vars

\* C26: after any create and update requests, interleaved ones included, no
\* two stored books have the same title and author
C26_TitleAuthorUnique == title_author_unique(books)

\* ----------------------------------------------------------- blog comments
\* blog/ of django_blog: CommentCreateView, CommentUpdateView and
\* CommentDeleteView.  A Comment row is [post, author, content].  The views
\* read kwargs['post_id'] and kwargs['pk']; blog/urls.py routes them with pk
\* alone, test_comments.py reverses routes that capture post_id.  A request
\* comes through either kind of route.  (blog/views.py uses CommentForm,
\* get_object_or_404 and reverse without importing them; they are taken as
\* imported.)
MaxComments == 2

HTTP_302_FOUND == 302

\* pks of the stored blog posts, and the post pks a request may name
BlogPosts == 1..NumPosts
BlogPostPks == 1..(NumPosts + 1)

\* the comment pks a request may name
CommentPks == 1..(MaxComments + 1)

\* a content CommentForm.clean_content rejects: fewer than 3 characters
\* after strip()
ShortContent == 0

\* "urls": the route of blog/urls.py, kwargs = {pk}; "tests": the route
\* test_comments.py reverses, kwargs = {post_id} or {post_id, pk}
URLconfs == {"urls", "tests"}

\* 'post_id' in kwargs
has_post_id(urlconf) == urlconf = "tests"

\* CommentForm.is_valid()
CommentForm_is_valid(content) == content # ShortContent

\* the Comment tables of n rows
CommentRows(n) ==
    [1..n -> [post : BlogPosts, author : Users, content : Contents]]

\* the Comment tables the admin site or the ORM can have left
CommentTables == UNION {CommentRows(n) : n \in 0..MaxComments}

\* View.dispatch calls getattr(self, 'post'); CommentCreateView.dispatch
\* has stored the Post row in self.post, and a Post row cannot be called
handler_is_callable(view, method) ==
    ~(view = "CommentCreateView" /\ method = "post")

\* whether the module has a global comment_parent_detail_url: the def is
\* indented into the body of AuthorRequiredMixin
comment_parent_detail_url_defined == FALSE

\* AuthorRequiredMixin.test_func
test_func(comment, user) == comment.author = user

\* the pk of a new Comment row
new_comment_pk(rows) ==
    IF DOMAIN rows = {} THEN 1
    ELSE (CHOOSE m \in DOMAIN rows : \A k \in DOMAIN rows : k <= m) + 1

\* form.save() of CommentCreateView.form_valid
comment_insert(rows, post, user, content) ==
    [c \in DOMAIN rows \cup {new_comment_pk(rows)} |->
        IF c \in DOMAIN rows THEN rows[c]
        ELSE [post |-> post, author |-> user, content |-> content]]

\* self.object.delete()
comment_delete(rows, pk) == [c \in DOMAIN rows \ {pk} |-> rows[c]]

\* Comment.objects.filter(post_id=post_id) has a row pk
comment_found(rows, post_id, pk) ==
    pk \in DOMAIN rows /\ rows[pk].post = post_id

\* the response of a comment view
CommentRespond(op, user, pk, status, urlconf, post_id, content) ==
    /\ RecordWith(op, user, pk, status, "",
                  [content |-> content, urlconf |-> urlconf,
                   post_id |-> post_id])
    /\ UNCHANGED <<followers_rows, likes, notifications, posts, calls, writes,
                   feed, post_seq, books, tags>>

\* POST of CommentCreateView: dispatch looks the post up before
\* LoginRequiredMixin checks the user; form_valid would store the comment
CommentCreateView_post(user, urlconf, post_id, content) ==
    LET Answer(status) ==
            CommentRespond("comment_create", user, 0, status, urlconf,
                           post_id, content)
    IN
    IF ~has_post_id(urlconf) THEN
        Answer(HTTP_500_INTERNAL_SERVER_ERROR) /\ UNCHANGED comments
    ELSE IF post_id \notin BlogPosts THEN
        Answer(HTTP_404_NOT_FOUND) /\ UNCHANGED comments
    ELSE IF user = Anonymous THEN
        Answer(HTTP_302_FOUND) /\ UNCHANGED comments
    ELSE IF ~handler_is_callable("CommentCreateView", "post") THEN
        Answer(HTTP_500_INTERNAL_SERVER_ERROR) /\ UNCHANGED comments
    ELSE IF ~CommentForm_is_valid(content) THEN
        Answer(HTTP_200_OK) /\ UNCHANGED comments
    ELSE
        /\ Cardinality(DOMAIN comments) < MaxComments
        /\ comments' = comment_insert(comments, post_id, user, content)
        /\ Answer(HTTP_302_FOUND)

\* POST of CommentUpdateView: LoginRequiredMixin, then test_func on
\* get_object, then the form; the redirect after form.save() and the one of
\* handle_no_permission call comment_parent_detail_url
CommentUpdateView_post(user, urlconf, post_id, pk, content) ==
    LET Answer(status) ==
            CommentRespond("comment_edit", user, pk, status, urlconf,
                           post_id, content)
        Redirect == IF comment_parent_detail_url_defined
                    THEN HTTP_302_FOUND
                    ELSE HTTP_500_INTERNAL_SERVER_ERROR
    IN
    IF user = Anonymous THEN
        Answer(HTTP_302_FOUND) /\ UNCHANGED comments
    ELSE IF ~has_post_id(urlconf) THEN
        Answer(HTTP_500_INTERNAL_SERVER_ERROR) /\ UNCHANGED comments
    ELSE IF ~comment_found(comments, post_id, pk) THEN
        Answer(HTTP_404_NOT_FOUND) /\ UNCHANGED comments
    ELSE IF ~test_func(comments[pk], user) THEN
        Answer(Redirect) /\ UNCHANGED comments
    ELSE IF ~CommentForm_is_valid(content) THEN
        Answer(HTTP_200_OK) /\ UNCHANGED comments
    ELSE
        /\ comments' = [comments EXCEPT ![pk].content = content]
        /\ Answer(Redirect)

\* POST of CommentDeleteView; the route names the view reverses are taken
\* to resolve where the route captures post_id
CommentDeleteView_post(user, urlconf, post_id, pk) ==
    LET Answer(status) ==
            CommentRespond("comment_delete", user, pk, status, urlconf,
                           post_id, ShortContent)
        Redirect == IF comment_parent_detail_url_defined
                    THEN HTTP_302_FOUND
                    ELSE HTTP_500_INTERNAL_SERVER_ERROR
    IN
    IF user = Anonymous THEN
        Answer(HTTP_302_FOUND) /\ UNCHANGED comments
    ELSE IF ~has_post_id(urlconf) THEN
        Answer(HTTP_500_INTERNAL_SERVER_ERROR) /\ UNCHANGED comments
    ELSE IF ~comment_found(comments, post_id, pk) THEN
        Answer(HTTP_404_NOT_FOUND) /\ UNCHANGED comments
    ELSE IF ~test_func(comments[pk], user) THEN
        Answer(Redirect) /\ UNCHANGED comments
    ELSE
        /\ comments' = comment_delete(comments, pk)
        /\ Answer(HTTP_302_FOUND)

\* any stored comments
InitComments ==
    /\ followers_rows = [k \in Users \X Users |-> 0]
    /\ likes = [k \in Users \X Posts |-> 0]
    /\ notifications = <<>>
    /\ posts = StoredPosts
    /\ post_seq = NumPosts
    /\ resp = NoResp
    /\ prev = NoPrev
    /\ calls = [i \in Procs |-> Idle]
    /\ writes = <<>>
    /\ feed = NoFeed
    /\ books = <<>>
    /\ comments \in CommentTables
    /\ tags = <<>>
    /\ pre = Snapshot

CommentCreate ==
    \E user \in Callers, urlconf \in URLconfs, post_id \in BlogPostPks,
       content \in Contents \cup {ShortContent} :
        CommentCreateView_post(user, urlconf, post_id, content)

CommentUpdate ==
    \E user \in Callers, urlconf \in URLconfs, post_id \in BlogPostPks,
       pk \in CommentPks, content \in Contents \cup {ShortContent} :
        CommentUpdateView_post(user, urlconf, post_id, pk, content)

CommentDelete ==
    \E user \in Callers, urlconf \in URLconfs, post_id \in BlogPostPks,
       pk \in CommentPks :
        CommentDeleteView_post(user, urlconf, post_id, pk)

NextComments == CommentCreate \/ CommentUpdate \/ CommentDelete

\* create, edit and delete requests on comments
SpecComments == InitComments /\ [][NextComments]_vars

\* the last request came through a route that captures post_id and named
\* a stored post
WellRouted == resp.data.urlconf = "tests" /\ resp.data.post_id \in BlogPosts

\* the last request named a comment of its post that its caller wrote
ByCommentAuthor ==
    /\ comment_found(pre.comments, resp.data.post_id, resp.pk)
    /\ pre.comments[resp.pk].author = resp.user

\* C27: a create request of a logged-in user with a valid content stores a
\* comment with that user as author, and one of an anonymous caller stores
\* nothing; an edit or delete request of anybody but the author of the
\* comment leaves the comments as they were; the author's edit stores the
\* new content and the author's delete removes the comment
C27_CommentFlow ==
    /\ (resp.op = "comment_create" /\ WellRouted
            /\ CommentForm_is_valid(resp.data.content))
           => IF resp.user \in Users
              THEN \E c \in DOMAIN comments \ DOMAIN pre.comments :
                       comments[c] = [post |-> resp.data.post_id,
                                      author |-> resp.user,
                                      content |-> resp.data.content]
              ELSE comments = pre.comments
    /\ (resp.op \in {"comment_edit", "comment_delete"} /\ ~ByCommentAuthor)
           => comments = pre.comments
    /\ (resp.op = "comment_edit" /\ WellRouted /\ ByCommentAuthor
            /\ CommentForm_is_valid(resp.data.content))
           => comments =
                  [pre.comments EXCEPT ![resp.pk].content = resp.data.content]
    /\ (resp.op = "comment_delete" /\ WellRouted /\ ByCommentAuthor)
           => comments = comment_delete(pre.comments, resp.pk)

\* C28: an unfollow request of a user on themself is answered 400 with the
\* error "You cannot unfollow yourself." and leaves the follow relation as
\* it was, as a follow request on themself is answered 400 with its own
\* error
C28_SelfUnfollowRejected ==
    /\ (GraphCall("unfollow") /\ resp.pk = resp.user)
           => /\ resp.status = HTTP_400_BAD_REQUEST
              /\ resp.error = "You cannot unfollow yourself."
              /\ followers_rows = pre.followers_rows
    /\ (GraphCall("follow") /\ resp.pk = resp.user)
           => /\ resp.status = HTTP_400_BAD_REQUEST
              /\ resp.error = "You cannot follow yourself."
              /\ followers_rows = pre.followers_rows

\* a user who follows somebody and has a follower asked to unfollow
\* themself and was refused
C28_Witness ==
    /\ GraphCall("unfollow") /\ resp.pk = resp.user
    /\ resp.status = HTTP_400_BAD_REQUEST
    /\ resp.error = "You cannot unfollow yourself."
    /\ following(resp.user) # {}
    /\ followers(resp.user) # {}

\* ---------------------------------------------------------------- blog tags
\* Tag.save of django_blog.  A string is a sequence of characters; a Tag
\* row is [name, slug] and its pk is its position in tags.
MaxTags == 2

\* names that meet in their slugs: two cases of a letter, blanks at the end
\* and inside, a digit, and a character slugify drops
TagNames == {<<"a">>, <<"A", " ">>, <<"a", " ", "2">>, <<"!">>}

\* the empty slug, and the slugs an instance may be given before save()
NoSlug == <<>>
GivenSlugs == {NoSlug, <<"a">>}

\* the pk of an instance that is not stored yet
NewPk == 0

whitespace == {" "}

\* the characters \w matches
word_chars == {"a", "A", "2", "_"}

RECURSIVE lstrip(_, _)
lstrip(s, chars) ==
    IF s # <<>> /\ Head(s) \in chars THEN lstrip(Tail(s), chars) ELSE s

RECURSIVE rstrip(_, _)
rstrip(s, chars) ==
    IF s # <<>> /\ s[Len(s)] \in chars
    THEN rstrip(SubSeq(s, 1, Len(s) - 1), chars)
    ELSE s

\* str.strip
strip(s, chars) == rstrip(lstrip(s, chars), chars)

\* str.lower
lower(s) == [i \in DOMAIN s |-> IF s[i] = "A" THEN "a" ELSE s[i]]

\* re.sub(r'[^\w\s-]', '', value)
drop_other(s) ==
    SelectSeq(s, LAMBDA c : c \in word_chars \cup whitespace \cup {"-"})

RECURSIVE hyphenate(_)
\* re.sub(r'[-\s]+', '-', value)
hyphenate(s) ==
    IF s = <<>> THEN <<>>
    ELSE IF Head(s) \in whitespace \cup {"-"}
    THEN <<"-">> \o hyphenate(lstrip(Tail(s), whitespace \cup {"-"}))
    ELSE <<Head(s)>> \o hyphenate(Tail(s))

\* django.utils.text.slugify
slugify(value) == strip(hyphenate(drop_other(lower(value))), {"-", "_"})

\* slug_candidate = base, then f"{base}-{n}"
slug_candidate(base, n) ==
    IF n = 1 THEN base ELSE base \o <<"-", ToString(n)>>

slug_taken_self_included(rows, pk, slug) ==
    \E t \in DOMAIN rows : rows[t].slug = slug
\* Tag.objects.filter(slug=slug_candidate).exclude(pk=self.pk).exists()
slug_taken(rows, pk, slug) ==
    \E t \in DOMAIN rows \ {pk} : rows[t].slug = slug

RECURSIVE unique_slug(_, _, _, _)
\* the while loop of Tag.save, entered with n candidates tried
unique_slug(rows, pk, base, n) ==
    IF slug_taken(rows, pk, slug_candidate(base, n))
    THEN unique_slug(rows, pk, base, n + 1)
    ELSE [slug |-> slug_candidate(base, n), n |-> n]

\* super().save() meets unique=True of name or slug in another row
integrity_error(rows, pk, row) ==
    \E t \in DOMAIN rows \ {pk} :
        rows[t].name = row.name \/ rows[t].slug = row.slug

\* what is kept of a save(): the instance as given, the candidates tried,
\* and the exception raised
TagRespond(pk, name, slug, n, error) ==
    /\ resp' = [op |-> "tag_save", user |-> Anonymous, pk |-> pk,
                status |-> 0, error |-> error,
                data |-> [name |-> name, slug |-> slug, n |-> n]]
    /\ prev' = NoPrev
    /\ pre' = Snapshot
    /\ UNCHANGED <<followers_rows, likes, notifications, posts, calls, writes,
                   feed, post_seq, books, comments>>

\* Tag.save() of an instance with the given pk, name and slug
Tag_save(pk, name, slug) ==
    LET stripped == strip(name, whitespace)
        r == IF slug = NoSlug
             THEN unique_slug(tags, pk, slugify(stripped), 1)
             ELSE [slug |-> slug, n |-> 0]
        row == [name |-> stripped, slug |-> r.slug]
    IN
    IF integrity_error(tags, pk, row) THEN
        /\ TagRespond(pk, name, slug, r.n, "IntegrityError")
        /\ UNCHANGED tags
    ELSE IF pk = NewPk THEN
        /\ Len(tags) < MaxTags
        /\ tags' = Append(tags, row)
        /\ TagRespond(Len(tags) + 1, name, slug, r.n, "")
    ELSE
        /\ tags' = [tags EXCEPT ![pk] = row]
        /\ TagRespond(pk, name, slug, r.n, "")

\* no tag is stored
InitTags ==
    /\ followers_rows = [k \in Users \X Users |-> 0]
    /\ likes = [k \in Users \X Posts |-> 0]
    /\ notifications = <<>>
    /\ posts = StoredPosts
    /\ post_seq = NumPosts
    /\ resp = NoResp
    /\ prev = NoPrev
    /\ calls = [i \in Procs |-> Idle]
    /\ writes = <<>>
    /\ feed = NoFeed
    /\ books = <<>>
    /\ comments = <<>>
    /\ tags = <<>>
    /\ pre = Snapshot

\* save() of a new instance
TagCreate ==
    \E name \in TagNames, slug \in GivenSlugs : Tag_save(NewPk, name, slug)

\* save() of a stored instance, renamed or not, with its slug or without
TagUpdate ==
    \E pk \in DOMAIN tags, name \in TagNames :
        \E slug \in {tags[pk].slug, NoSlug} : Tag_save(pk, name, slug)

NextTags == TagCreate \/ TagUpdate

\* Tag saves, one after the other
SpecTags == InitTags /\ [][NextTags]_vars

\* the slugs of the tags stored before the last save, the saved one apart
OtherSlugs == {pre.tags[t].slug : t \in DOMAIN pre.tags \ {resp.pk}}

\* base if no other tag has it, else the first of base-2, base-3, ... that
\* no other tag has
FirstFree(base, others) ==
    IF base \notin others THEN base
    ELSE LET k == CHOOSE k \in 2..(Cardinality(others) + 2) :
                      /\ slug_candidate(base, k) \notin others
                      /\ \A j \in 2..(k - 1) :
                             slug_candidate(base, j) \in others
         IN slug_candidate(base, k)

\* C29: the stored slugs are pairwise distinct; a save of a tag without a
\* slug tries at most one candidate more than there are other tags and
\* stores slugify(name) if no other tag has it, else the first free of
\* base-2, base-3, ...; a save of a tag with a slug stores that slug
C29_UniqueSlug ==
    /\ \A a, b \in DOMAIN tags : a # b => tags[a].slug # tags[b].slug
    /\ (resp.op = "tag_save" /\ resp.data.slug = NoSlug)
           => resp.data.n <= Cardinality(OtherSlugs) + 1
    /\ (resp.op = "tag_save" /\ resp.error = "") =>
           IF resp.data.slug = NoSlug
           THEN /\ tags[resp.pk].slug \notin OtherSlugs
                /\ tags[resp.pk].slug =
                       FirstFree(slugify(strip(resp.data.name, whitespace)),
                                 OtherSlugs)
           ELSE tags[resp.pk].slug = resp.data.slug

\* a tag named "a 2" was saved without a slug while another tag holds
\* a-2: the second candidate, a-2-2, was stored
C29_Witness ==
    /\ resp.op = "tag_save" /\ resp.error = ""
    /\ resp.data.slug = NoSlug
    /\ resp.data.name = <<"a", " ", "2">>
    /\ resp.data.n = 2
    /\ tags[resp.pk].slug = <<"a", "-", "2", "-", "2">>

\* the step is a successful like request of user a on post p, a post of
\* another user
LikedBy(a, p) ==
    /\ resp'.op = "like" /\ resp'.user = a /\ resp'.pk = p
    /\ resp'.status = HTTP_201_CREATED
    /\ posts[p].author # a

\* C30: there is no notification before the first request, and every like
\* or unlike request leaves the number of notifications of each actor on
\* each post as it was, but for a successful like of another user's post,
\* which adds one for its caller and that post, whether or not the caller
\* liked that post before: the number of notifications of A on P is the
\* number of successful likes of P by A
C30_NotificationPerLike ==
    /\ notifications = <<>>
    /\ [][\A a \in Users, p \in Posts :
             Cardinality(NotificationsOf(a, p))' =
                 Cardinality(NotificationsOf(a, p))
                     + (IF LikedBy(a, p) THEN 1 ELSE 0)]_vars

\* like, unlike and like again of another user's post: two notifications of
\* the caller on the post
C30_Witness ==
    /\ EngageCall("like") /\ resp.status = HTTP_201_CREATED
    /\ prev = [op |-> "unlike", status |-> HTTP_200_OK]
    /\ posts[resp.pk].author # resp.user
    /\ Cardinality(NotificationsOf(resp.user, resp.pk)) = 2

====
